---- MODULE Spec2Model ----
(***************************************************************************)
(* A model of carmcmc/samplers.py: the MCMCSample store of parameter       *)
(* traces (a dict of numpy arrays), its accessors, the effective sample    *)
(* size computed through acor, and the contour-level search of plot_2dkde. *)
(*                                                                         *)
(* numpy arrays are modelled as a handle [buf, shape] onto a heap of flat, *)
(* row-major data buffers, so that copies, views and aliases differ.       *)
(* Floating point values are modelled by exact integers and rationals;     *)
(* NaN is a value of its own.  Python exceptions are modelled as the       *)
(* status of the call: "KeyError", "ValueError", "IndexError",             *)
(* "RuntimeError"; "ok" is a normal return.                                *)
(***************************************************************************)
EXTENDS Integers, Sequences, FiniteSets, TLC

VARIABLES
    samples,    \* self._samples: a function from the names present to array handles
    heap,       \* the live array buffers: buffer id -> flat row-major data
    held,       \* the copies the caller holds: sequence of [name, arr]
    last,       \* the last call: [op, name, status, args, ret]
    hist        \* plot_2dkde: the density grid, flattened (<<>> before the call)

vars == <<samples, heap, held, last, hist>>

-----------------------------------------------------------------------------
(* Bounds of the model and the inputs it draws.                            *)

MaxHeld == 1        \* copies the caller holds at one time
MaxSources == 2     \* files in one generate_from_file call
MaxBins == 3        \* nbins of plot_2dkde: the grid has nbins * nbins cells
MaxPts == 2         \* npts of plot_2dkde: the points of the two traces
MaxPaths == 2       \* paths of one contour level

Names == {"a", "b"}

\* The value written by the caller into a copy it holds.
MutValues == {9}

-----------------------------------------------------------------------------
(* Values.                                                                 *)

\* numpy.nan, as genfromtxt stores it for a token it cannot convert.
NaN == -999

None == <<>>

NoArgs == <<>>

EmptyDict == [n \in {} |-> 0]

Abs(x) == IF x < 0 THEN -x ELSE x

RECURSIVE GCD(_, _)
GCD(a, b) == IF b = 0 THEN a ELSE GCD(b, a % b)

(* Floats as exact rationals [n, d], reduced, d > 0.  The IEEE specials:   *)
(* 0/0 is NaN, 1/0 is +inf, -1/0 is -inf.                                  *)
RNaN == [n |-> 0, d |-> 0]

RInf == [n |-> 1, d |-> 0]

IsNaN(r) == r.n = 0 /\ r.d = 0

IsFinite(r) == r.d # 0

Sign(x) == IF x < 0 THEN -1 ELSE IF x > 0 THEN 1 ELSE 0

Rat(num, den) ==
    IF den = 0 THEN [n |-> Sign(num), d |-> 0]
    ELSE LET g == GCD(Abs(num), Abs(den))
             s == IF den < 0 THEN -1 ELSE 1
         IN [n |-> s * (num \div g), d |-> s * (den \div g)]

\* x * y, cross-reduced before multiplying.
RMul(x, y) ==
    IF IsNaN(x) \/ IsNaN(y) THEN RNaN
    ELSE IF x.d = 0 \/ y.d = 0
         THEN (IF x.n = 0 \/ y.n = 0 THEN RNaN ELSE [n |-> Sign(x.n) * Sign(y.n), d |-> 0])
    ELSE LET g1 == GCD(Abs(x.n), y.d)
             g2 == GCD(Abs(y.n), x.d)
         IN [n |-> (x.n \div g1) * (y.n \div g2), d |-> (x.d \div g2) * (y.d \div g1)]

\* 1 / y
RInv(y) ==
    IF IsNaN(y) THEN RNaN
    ELSE IF y.d = 0 THEN [n |-> 0, d |-> 1]
    ELSE IF y.n = 0 THEN RInf
    ELSE IF y.n < 0 THEN [n |-> -y.d, d |-> -y.n]
    ELSE [n |-> y.d, d |-> y.n]

\* x / y as IEEE division does it: 0/0 is NaN, x/0 is inf.
RDiv(x, y) ==
    IF IsNaN(x) \/ IsNaN(y) THEN RNaN
    ELSE IF y.n = 0 /\ y.d # 0
         THEN (IF x.n = 0 THEN RNaN ELSE [n |-> Sign(x.n), d |-> 0])
    ELSE RMul(x, RInv(y))

\* x < y; every comparison with NaN is false.
RLess(x, y) ==
    /\ ~IsNaN(x)
    /\ ~IsNaN(y)
    /\ IF x.d = 0 \/ y.d = 0
       THEN (IF x.d = 0 /\ y.d = 0 THEN x.n < y.n
             ELSE IF x.d = 0 THEN x.n < 0 ELSE y.n > 0)
       ELSE x.n * y.d < y.n * x.d

-----------------------------------------------------------------------------
(* Arrays on the heap.                                                     *)

\* The id numpy's allocator hands out: the smallest one not live.
NewId(hp) == CHOOSE i \in 1..(Cardinality(DOMAIN hp) + 1) :
                 /\ i \notin DOMAIN hp
                 /\ \A j \in 1..(i - 1) : j \in DOMAIN hp

ndim(a) == Len(a.shape)

\* The flat data an array handle reads.
Data(hp, a) == hp[a.buf]

-----------------------------------------------------------------------------
(* Ingestion: generate_from_file.                                          *)
(* A file is [name, rows]: the header line and the lines after it, each a  *)
(* sequence of whitespace-separated tokens (a blank line has none).        *)

\* file.readline() on the header line.
readline(f) == f.name

\* float(token) in genfromtxt's loose conversion: a token that is no number
\* becomes nan, it raises nothing.
to_float(tok) ==
    CASE tok = "0" -> 0
      [] tok = "1" -> 1
      [] tok = "2" -> 2
      [] tok = "-1" -> -1
      [] OTHER -> NaN

RECURSIVE Flatten(_)
Flatten(rows) ==
    IF Len(rows) = 0 THEN <<>>
    ELSE [i \in 1..Len(rows[1]) |-> to_float(rows[1][i])] \o Flatten(Tail(rows))

IsDataLine(r) == Len(r) > 0

\* numpy.squeeze on an (nrows, ncols) result: axes of length one are dropped.
squeeze(nrows, ncols) ==
    (IF nrows = 1 THEN <<>> ELSE <<nrows>>) \o (IF ncols = 1 THEN <<>> ELSE <<ncols>>)

\* np.genfromtxt(fname, skip_header=1): blank lines are skipped; no data line at
\* all gives an empty 1-d array (with a warning only); a line with another number
\* of columns than the first data line raises ValueError (invalid_raise).
genfromtxt(rows) ==
    LET lines == SelectSeq(rows, IsDataLine)
    IN IF Len(lines) = 0
       THEN [status |-> "ok", shape |-> <<0>>, data |-> <<>>]
       ELSE IF \E i \in 1..Len(lines) : Len(lines[i]) # Len(lines[1])
       THEN [status |-> "ValueError", shape |-> <<>>, data |-> <<>>]
       ELSE [status |-> "ok",
             shape |-> squeeze(Len(lines), Len(lines[1])),
             data |-> Flatten(lines)]

\* A faulty variant of AddIfAbsent: the trace is stored whether or not the name
\* is known (last write wins).
AddOverwriting(smp, hp, name, trace) ==
    LET id == NewId(hp)
    IN [samples |-> [n \in DOMAIN smp \cup {name} |->
                        IF n = name THEN [buf |-> id, shape |-> trace.shape] ELSE smp[n]],
        heap |-> hp @@ (id :> trace.data)]

\* if name not in self._samples: self._samples[name] = trace
AddIfAbsent(smp, hp, name, trace) ==
    IF name \notin DOMAIN smp
    THEN LET id == NewId(hp)
         IN [samples |-> smp @@ (name :> [buf |-> id, shape |-> trace.shape]),
             heap |-> hp @@ (id :> trace.data)]
    ELSE [samples |-> smp, heap |-> hp]

\* generate_from_file(filename), from source k on: the loop body reads the name,
\* parses the table, and only then looks the name up, so that a table that does
\* not parse raises out of the loop whether or not its name is known.  at is
\* the source the exception comes from, 0 when there is none.
RECURSIVE generate_from(_, _, _, _)
generate_from(smp, hp, filename, k) ==
    IF k > Len(filename) THEN [samples |-> smp, heap |-> hp, status |-> "ok", at |-> 0]
    ELSE LET name == readline(filename[k])
             trace == genfromtxt(filename[k].rows)
         IN IF trace.status # "ok"
            THEN [samples |-> smp, heap |-> hp, status |-> trace.status, at |-> k]
            ELSE LET st == AddIfAbsent(smp, hp, name, trace)
                 IN generate_from(st.samples, st.heap, filename, k + 1)

generate_from_file(smp, hp, filename) == generate_from(smp, hp, filename, 1)

-----------------------------------------------------------------------------
(* get_samples.                                                            *)

\* A faulty variant of copy: the stored array itself is handed out.
NoCopy(hp, a) == [heap |-> hp, arr |-> a]

\* ndarray.copy(): a new buffer with the same data, the same shape.
copy(hp, a) ==
    LET id == NewId(hp)
    IN [heap |-> hp @@ (id :> hp[a.buf]), arr |-> [buf |-> id, shape |-> a.shape]]

\* A faulty variant of get_samples: an unknown name is answered with an empty
\* array.
GetOrEmpty(smp, hp, name) ==
    IF name \notin DOMAIN smp
    THEN LET id == NewId(hp)
         IN [status |-> "ok", heap |-> hp @@ (id :> <<>>),
             ret |-> <<[buf |-> id, shape |-> <<0>>]>>]
    ELSE LET c == copy(hp, smp[name])
         IN [status |-> "ok", heap |-> c.heap, ret |-> <<c.arr>>]

\* return self._samples[name].copy()
get_samples(smp, hp, name) ==
    IF name \notin DOMAIN smp
    THEN [status |-> "KeyError", heap |-> hp, ret |-> None]
    ELSE LET c == copy(hp, smp[name])
         IN [status |-> "ok", heap |-> c.heap, ret |-> <<c.arr>>]

-----------------------------------------------------------------------------
(* newaxis.                                                                *)

\* A faulty variant of AddAxis: the axis is added to arrays of every rank.
AddAxisAlways(a) == [buf |-> a.buf, shape |-> a.shape \o <<1>>]

\* a[:, np.newaxis] on a 1-d array is an (N, 1) view of the same buffer;
\* arrays of any other rank are left as they are.
AddAxis(a) ==
    IF Len(a.shape) = 1 THEN [buf |-> a.buf, shape |-> <<a.shape[1], 1>>] ELSE a

newaxis(smp) == [key \in DOMAIN smp |-> AddAxis(smp[key])]

-----------------------------------------------------------------------------
(* acor.acor, the estimator autocorr_timescale calls (J. Goodman's acor,   *)
(* maxlag = 10).  The series at one level of the recursion is Y[i] / q,    *)
(* i in 1..L, with integer Y and q; sigma2 is sigma squared.               *)

MINFAC == 5      \* the series must be at least MINFAC * maxlag long
WINMULT == 5     \* the window must be at least WINMULT * tau wide
maxlag == 10     \* acor.acor(data, maxlag=10)

\* Y[lo] + ... + Y[hi]
RECURSIVE SumSeq(_, _, _)
SumSeq(Y, lo, hi) ==
    IF lo > hi THEN 0
    ELSE IF lo = hi THEN Y[lo]
    ELSE LET mid == (lo + hi) \div 2
         IN SumSeq(Y, lo, mid) + SumSeq(Y, mid + 1, hi)

\* the sum over lo <= i <= hi of X[i] * X[i + s]
RECURSIVE LagSum(_, _, _, _)
LagSum(Y, s, lo, hi) ==
    IF lo > hi THEN 0
    ELSE IF lo = hi THEN Y[lo] * Y[lo + s]
    ELSE LET mid == (lo + hi) \div 2
         IN LagSum(Y, s, lo, mid) + LagSum(Y, s, mid + 1, hi)

\* One call of the C function acor(mean, sigma, tau, X, L, maxlag).  sig and tau
\* are what *sigma and *tau hold on entry: a call that returns 1 or 2 leaves them
\* as they are, and the caller one level up does not look at the status.
RECURSIVE acor_c(_, _, _, _, _)
acor_c(Y, q, L, sig, tau) ==
    IF L < MINFAC * maxlag THEN [status |-> 1, sigma2 |-> sig, tau |-> tau]
    ELSE LET S == SumSeq(Y, 1, L)
             g == GCD(L, Abs(S))
             m == L \div g
             qc == q * m
             Yc == [i \in 1..L |-> m * Y[i] - (S \div g)]     \* X[i] -= mean
             iMax == L - maxlag
             C == [s \in 0..maxlag |-> LagSum(Yc, s, 1, iMax)]  \* times iMax * qc^2
             cden == iMax * qc * qc
             Dn == C[0] + 2 * SumSeq(C, 1, maxlag)
         IN IF Dn < 0 THEN [status |-> 2, sigma2 |-> sig, tau |-> tau]
            ELSE LET sig1 == Rat(Dn, cden * L)                \* sigma = sqrt(D / L)
                     tau1 == Rat(Dn, C[0])                    \* tau = D / C[0]
                 IN IF RLess(RMul(tau1, Rat(WINMULT, 1)), Rat(maxlag, 1))
                    THEN [status |-> 0, sigma2 |-> sig1, tau |-> tau1]
                    ELSE LET Lh == L \div 2
                             Z == [i \in 1..Lh |-> Yc[2 * i - 1] + Yc[2 * i]]
                             r == acor_c(Z, qc, Lh, sig1, tau1)
                             D2 == RMul(RMul(Rat(1, 4), r.sigma2), Rat(L, 1))
                         IN [status |-> 0,
                             sigma2 |-> RMul(D2, Rat(1, L)),
                             tau |-> RDiv(D2, Rat(C[0], cden))]

\* acor.acor(x): (tau, mean, sigma), or RuntimeError when the C function returns
\* a status other than 0.  A series that holds a nan makes every sum nan, and
\* every comparison with nan is false: the recursion runs to its end and tau is
\* nan.
acor(x) ==
    IF \E i \in 1..Len(x) : x[i] = NaN
    THEN (IF Len(x) < MINFAC * maxlag
          THEN [status |-> "RuntimeError", tau |-> RNaN]
          ELSE [status |-> "ok", tau |-> RNaN])
    ELSE LET r == acor_c(x, 1, Len(x), RNaN, RNaN)
         IN IF r.status = 0 THEN [status |-> "ok", tau |-> r.tau]
            ELSE [status |-> "RuntimeError", tau |-> RNaN]

-----------------------------------------------------------------------------
(* autocorr_timescale and effective_samples.                               *)

\* trace[:, i] of a 2-d array, i counted from 0.
Column(hp, trace, i) ==
    [r \in 1..trace.shape[1] |-> hp[trace.buf][(r - 1) * trace.shape[2] + i + 1]]

\* The loop of autocorr_timescale over the columns i..D-1: the first acor that
\* raises ends the call.
RECURSIVE acors_from(_, _, _)
acors_from(hp, trace, i) ==
    IF i >= trace.shape[2] THEN [status |-> "ok", ret |-> <<>>]
    ELSE LET a == acor(Column(hp, trace, i))
         IN IF a.status # "ok" THEN [status |-> a.status, ret |-> <<>>]
            ELSE LET rest == acors_from(hp, trace, i + 1)
                 IN IF rest.status # "ok" THEN rest
                    ELSE [status |-> "ok", ret |-> <<a.tau>> \o rest.ret]

\* autocorr_timescale(trace): trace.shape[1] of an array of fewer than two axes
\* is an IndexError.
autocorr_timescale(hp, trace) ==
    IF Len(trace.shape) < 2 THEN [status |-> "IndexError", ret |-> <<>>]
    ELSE acors_from(hp, trace, 0)

\* A faulty variant of npts: the length of the other axis.
nptsOtherAxis(traces) == traces.shape[2]

\* npts = traces.shape[0]
npts(traces) == traces.shape[1]

\* Lines 98-101: the effective sample sizes of a stored array.
ess_of(hp, traces) ==
    IF Len(traces.shape) < 1 THEN [status |-> "IndexError", ret |-> None]
    ELSE LET timescale == autocorr_timescale(hp, traces)
         IN IF timescale.status # "ok" THEN [status |-> timescale.status, ret |-> None]
            ELSE [status |-> "ok",
                  ret |-> <<[d \in 1..Len(timescale.ret) |->
                               RDiv(Rat(npts(traces), 1), timescale.ret[d])]>>]

\* A faulty variant of effective_samples: no test of the name before the lookup.
effective_samples_unguarded(smp, hp, name) ==
    IF name \notin DOMAIN smp THEN [status |-> "KeyError", ret |-> None]
    ELSE ess_of(hp, smp[name])

\* effective_samples(name): an unknown name prints a warning and returns None.
effective_samples(smp, hp, name) ==
    IF name \notin DOMAIN smp THEN [status |-> "ok", ret |-> None]
    ELSE ess_of(hp, smp[name])

-----------------------------------------------------------------------------
(* plot_2dkde: the contour levels.  hist is the density grid, flattened;   *)
(* its values are whole multiples of xtol, the absolute tolerance of       *)
(* scipy.optimize.bisect, and a level is a rational number of that unit.   *)

FracDen == 10000

\* for frac in [0.9973, 0.9545, 0.6827], in ten-thousandths
fracs == <<9973, 9545, 6827>>

maxiter == 100   \* scipy.optimize.bisect(f, a, b, maxiter=100)

RAdd(x, y) == Rat(x.n * y.d + y.n * x.d, x.d * y.d)

RSub(x, y) == Rat(x.n * y.d - y.n * x.d, x.d * y.d)

\* The sign of the float product x * y: -1, 0 or 1, and 2 when it is nan.
ProdSign(x, y) ==
    IF IsNaN(x) \/ IsNaN(y) THEN 2
    ELSE IF (x.d = 0 /\ y.n = 0) \/ (y.d = 0 /\ x.n = 0) THEN 2
    ELSE Sign(x.n) * Sign(y.n)

\* hist.min() and hist.max()
RECURSIVE hist_min(_)
hist_min(h) ==
    IF Len(h) = 1 THEN h[1]
    ELSE LET m == hist_min(Tail(h)) IN IF h[1] < m THEN h[1] ELSE m

RECURSIVE hist_max(_)
hist_max(h) ==
    IF Len(h) = 1 THEN h[1]
    ELSE LET m == hist_max(Tail(h)) IN IF h[1] > m THEN h[1] ELSE m

\* hist.sum()
RECURSIVE hist_sum(_)
hist_sum(h) == IF Len(h) = 0 THEN 0 ELSE h[1] + hist_sum(Tail(h))

\* A faulty variant of mass_ge: the cells at or below the level.
RECURSIVE mass_le(_, _)
mass_le(h, level) ==
    IF Len(h) = 0 THEN 0
    ELSE (IF h[1] * level.d <= level.n THEN h[1] ELSE 0) + mass_le(Tail(h), level)

\* hist[hist >= level].sum()
RECURSIVE mass_ge(_, _)
mass_ge(h, level) ==
    IF Len(h) = 0 THEN 0
    ELSE (IF h[1] * level.d >= level.n THEN h[1] ELSE 0) + mass_ge(Tail(h), level)

\* hfrac = lambda level: hist[hist>=level].sum()/hist.sum() - frac
hfrac(h, frac, level) ==
    RSub(Rat(mass_ge(h, level), hist_sum(h)), Rat(frac, FracDen))

\* fabs(dm) < xtol + rtol*fabs(xm), in units of xtol: rtol*|xm| is positive for
\* xm > 0 and smaller than any difference between two values dm takes, so that
\* the test is dm <= xtol for xm > 0 and dm < xtol for xm = 0.
within_tol(dm, xm) ==
    \/ RLess(dm, Rat(1, 1))
    \/ dm = Rat(1, 1) /\ xm.n > 0

\* The loop of bisect: fa keeps the value of f at the first end.
RECURSIVE bisect_loop(_, _, _, _, _, _)
bisect_loop(h, frac, fa, xa, dm, i) ==
    IF i >= maxiter THEN [status |-> "RuntimeError", x |-> xa]
    ELSE LET dm2 == RMul(dm, Rat(1, 2))
             xm == RAdd(xa, dm2)
             fm == hfrac(h, frac, xm)
             xa2 == IF ProdSign(fm, fa) \in {0, 1} THEN xm ELSE xa   \* fm*fa >= 0
         IN IF (fm.n = 0 /\ fm.d # 0) \/ within_tol(dm2, xm)
            THEN [status |-> "ok", x |-> xm]
            ELSE bisect_loop(h, frac, fa, xa2, dm2, i + 1)

\* A faulty variant of bisect: the signs at the two ends are not compared.
bisect_unchecked(h, frac, a, b) ==
    LET fa == hfrac(h, frac, a)
        fb == hfrac(h, frac, b)
    IN IF fa.n = 0 /\ fa.d # 0 THEN [status |-> "ok", x |-> a]
       ELSE IF fb.n = 0 /\ fb.d # 0 THEN [status |-> "ok", x |-> b]
       ELSE bisect_loop(h, frac, fa, a, RSub(b, a), 0)

\* scipy.optimize.bisect(hfrac, a, b): "f(a) and f(b) must have different signs"
\* is a ValueError; a root at an end is returned as it is.
bisect(h, frac, a, b) ==
    LET fa == hfrac(h, frac, a)
        fb == hfrac(h, frac, b)
    IN IF ProdSign(fa, fb) = 1 THEN [status |-> "ValueError", x |-> a]     \* fa*fb > 0
       ELSE IF fa.n = 0 /\ fa.d # 0 THEN [status |-> "ok", x |-> a]
       ELSE IF fb.n = 0 /\ fb.d # 0 THEN [status |-> "ok", x |-> b]
       ELSE bisect_loop(h, frac, fa, a, RSub(b, a), 0)

\* The loop of lines 239-243 from the k-th fraction on: the first bisect that
\* raises ends plot_2dkde, and the levels found so far are lost with it.
RECURSIVE clevels_from(_, _)
clevels_from(h, k) ==
    IF k > Len(fracs) THEN [status |-> "ok", ret |-> <<>>]
    ELSE LET level == bisect(h, fracs[k], Rat(hist_min(h), 1), Rat(hist_max(h), 1))
         IN IF level.status # "ok" THEN [status |-> level.status, ret |-> <<>>]
            ELSE LET rest == clevels_from(h, k + 1)
                 IN IF rest.status # "ok" THEN rest
                    ELSE [status |-> "ok", ret |-> <<level.x>> \o rest.ret]

clevels(h) ==
    LET r == clevels_from(h, 1)
    IN IF r.status = "ok" THEN [status |-> "ok", ret |-> <<r.ret>>]
       ELSE [status |-> r.status, ret |-> None]

-----------------------------------------------------------------------------
(* plot_2dkde, lines 251-273: the contours and the stragglers.  A path is a *)
(* closed polygon, here a box with its sides between the coordinates the    *)
(* points take: [x0, x1, y0, y1].                                           *)

\* Path.contains_point((x, y))
contains_point(o, x, y) == o.x0 < x /\ x < o.x1 /\ o.y0 < y /\ y < o.y1

\* The levels are strictly increasing.
Increasing(levels) ==
    \A k \in 1..(Len(levels) - 1) : RLess(levels[k], levels[k + 1])

\* axJ.contour(mesh1, mesh2, hist, clevels): a collection of paths for each
\* level, in the order of the levels.  Where the paths run is the contouring
\* library's work: they are drawn.  Levels that do not increase strictly are
\* refused with ValueError by some versions of the library and drawn by others.
contour(levels, drawn) ==
    {[status |-> "ok", collections |-> drawn]}
    \cup (IF Increasing(levels) THEN {}
          ELSE {[status |-> "ValueError", collections |-> <<>>]})

\* The paths of the last level.
innermost(cont) == cont[Len(cont)]

\* outer = cont.collections[0]._paths
outer(cont) == cont[1]

\* found = [o.contains_point((trace1[i], trace2[i])) for o in outer]
found(paths, x, y) == [k \in 1..Len(paths) |-> contains_point(paths[k], x, y)]

\* True in found
TrueIn(fnd) == \E k \in 1..Len(fnd) : fnd[k] = TRUE

\* The loop of lines 268-272 from point i on, with sx and sy as they are.
RECURSIVE stragglers_from(_, _, _, _, _, _)
stragglers_from(trace1, trace2, paths, i, sx, sy) ==
    IF i > Len(trace1) THEN [sx |-> sx, sy |-> sy]
    ELSE IF ~TrueIn(found(paths, trace1[i], trace2[i]))
         THEN stragglers_from(trace1, trace2, paths, i + 1,
                              Append(sx, trace1[i]), Append(sy, trace2[i]))
         ELSE stragglers_from(trace1, trace2, paths, i + 1, sx, sy)

\* Lines 265-272: sx and sy, the coordinates of the stragglers.
stragglers(trace1, trace2, cont) ==
    stragglers_from(trace1, trace2, outer(cont), 1, <<>>, <<>>)

-----------------------------------------------------------------------------
(* The inputs.                                                             *)

\* The sequences of 1..n elements of S.
SeqsUpTo(S, n) == UNION {[1..k -> S] : k \in 1..n}

\* Short tables: a 2 x 2 matrix, a column with a blank line in it, a table whose
\* second row is short, a table of no rows, a column with a row that is no
\* number, and a single value.
SmallFiles ==
    { [name |-> "a", rows |-> << <<"1", "2">>, <<"0", "1">> >>],
      [name |-> "a", rows |-> << <<"2">>, <<>>, <<"1">> >>],
      [name |-> "a", rows |-> << <<"1", "2">>, <<"1">> >>],
      [name |-> "b", rows |-> <<>>],
      [name |-> "b", rows |-> << <<"1">>, <<"x">> >>],
      [name |-> "b", rows |-> << <<"2">> >>] }

FileLists == SeqsUpTo(SmallFiles, MaxSources)

SingleFiles == {<<f>> : f \in SmallFiles}

\* Long tables, one generated series a column: a square wave of half-period p,
\* (p = 1 alternates), or the constant 1 for p = 0.
Wave(p, r) == IF p = 0 THEN 1 ELSE IF ((r - 1) \div p) % 2 = 0 THEN 1 ELSE -1

str(v) == IF v = 1 THEN "1" ELSE "-1"

LongTable(N, periods) ==
    [r \in 1..N |-> [c \in 1..Len(periods) |-> str(Wave(periods[c], r))]]

Lens == {49, 50, 100}

OneColumn == {<<1>>, <<0>>, <<16>>}

TwoColumns == {<<1, 16>>, <<1, 0>>, <<16, 2>>}

LongFiles ==
    {[name |-> "a", rows |-> LongTable(N, ps)] : N \in Lens, ps \in OneColumn}
    \cup {[name |-> "b", rows |-> LongTable(N, ps)] : N \in Lens, ps \in TwoColumns}

LongFileLists == {<<f>> : f \in LongFiles}

\* The density a grid cell holds, in units of xtol.
DensityValues == {0, 1, 2, 12, 13}

\* The sequences of n densities in ascending order.
RECURSIVE Ascending(_)
Ascending(n) ==
    IF n = 0 THEN {<<>>}
    ELSE {Append(p[1], p[2]) :
             p \in {q \in Ascending(n - 1) \X DensityValues :
                        Len(q[1]) = 0 \/ q[1][Len(q[1])] <= q[2]}}

\* The grids of nbins x nbins cells that hold some density.  hist.min(),
\* hist.max(), hist.sum() and hist[hist >= level].sum() do not depend on where
\* a cell is in the grid: the cells are drawn in ascending order.
Grids ==
    {h \in UNION {Ascending(nbins * nbins) : nbins \in 1..MaxBins} :
        \E i \in 1..Len(h) : h[i] > 0}

\* The points of the two traces: one in both boxes, one in the first box only
\* and one in no box.
Points == {<<0, 0>>, <<0, 2>>, <<2, 2>>}

PointLists == SeqsUpTo(Points, MaxPts)

\* The column x = 0 and the row y = 0.
Boxes ==
    {[x0 |-> -1, x1 |-> 1, y0 |-> -1, y1 |-> 3],
     [x0 |-> -1, x1 |-> 3, y0 |-> -1, y1 |-> 1]}

\* The paths of one level: none, or up to MaxPaths.
PathLists == {<<>>} \cup SeqsUpTo(Boxes, MaxPaths)

\* The collections of a contour plot, one for each fraction.
ContourSets == [1..Len(fracs) -> PathLists]

\* Grids of four cells where the levels are found and increase, are found and
\* do not increase, and are not found.
StragglerGrids == {<<1, 4, 40, 45>>, <<1, 2, 12, 13>>, <<1, 2, 12, 12>>}

\* The loop of lines 239-243 on each of these grids.
StragglerLevels == [h \in StragglerGrids |-> clevels(h)]

-----------------------------------------------------------------------------
(* The state machine.                                                      *)

Call(op, name, status, args, ret) ==
    [op |-> op, name |-> name, status |-> status, args |-> args, ret |-> ret]

\* MCMCSample(): an empty dictionary.
Init ==
    /\ samples = EmptyDict
    /\ heap = EmptyDict
    /\ held = <<>>
    /\ last = Call("init", "", "ok", NoArgs, None)
    /\ hist = <<>>

\* generate_from_file(filename) for a list of files; log says whether the call
\* record keeps the list.  The record of a call that raised names the source
\* the exception came from.
GenerateFromFile(lists, log) ==
    \E filename \in lists :
        LET r == generate_from_file(samples, heap, filename)
        IN /\ samples' = r.samples
           /\ heap' = r.heap
           /\ last' = Call("ingest", "", r.status, IF log THEN filename ELSE NoArgs,
                           IF r.status = "ok" THEN None ELSE <<r.at>>)
           /\ UNCHANGED <<held, hist>>

\* get_samples(name); the caller keeps the array it is given.
GetSamples ==
    \E name \in Names :
        LET r == get_samples(samples, heap, name)
        IN /\ r.status = "ok" => Len(held) < MaxHeld
           /\ heap' = r.heap
           /\ held' = IF r.status = "ok"
                      THEN Append(held, [name |-> name, arr |-> r.ret[1]])
                      ELSE held
           /\ last' = Call("get", name, r.status, NoArgs, r.ret)
           /\ UNCHANGED <<samples, hist>>

\* The caller writes into an array it holds: arr.flat[i] = v.
Mutate ==
    \E k \in 1..Len(held) :
        \E i \in 1..Len(heap[held[k].arr.buf]), v \in MutValues :
            /\ heap' = [heap EXCEPT ![held[k].arr.buf][i] = v]
            /\ last' = Call("mutate", held[k].name, "ok", NoArgs, None)
            /\ UNCHANGED <<samples, held, hist>>

\* The caller drops an array it holds; a buffer nothing refers to is freed.
Release ==
    \E k \in 1..Len(held) :
        LET rest == [j \in 1..(Len(held) - 1) |-> IF j < k THEN held[j] ELSE held[j + 1]]
            b == held[k].arr.buf
            used == \/ \E n \in DOMAIN samples : samples[n].buf = b
                    \/ \E j \in 1..Len(rest) : rest[j].arr.buf = b
        IN /\ held' = rest
           /\ heap' = IF used THEN heap ELSE [j \in DOMAIN heap \ {b} |-> heap[j]]
           /\ last' = Call("release", held[k].name, "ok", NoArgs, None)
           /\ UNCHANGED <<samples, hist>>

\* newaxis()
Newaxis ==
    /\ samples' = newaxis(samples)
    /\ last' = Call("newaxis", "", "ok", NoArgs, None)
    /\ UNCHANGED <<heap, held, hist>>

\* effective_samples(name)
EffectiveSamples ==
    \E name \in Names :
        LET r == effective_samples(samples, heap, name)
        IN /\ last' = Call("ess", name, r.status, NoArgs, r.ret)
           /\ UNCHANGED <<samples, heap, held, hist>>

\* plot_2dkde from line 237 to line 243: the kernel density estimate on the
\* grid is an input of the model.  The call keeps no state: one call a
\* behaviour.
PlotKde ==
    /\ last.op # "kde"
    /\ \E h \in Grids :
        LET r == clevels(h)
        IN /\ hist' = h
           /\ last' = Call("kde", "", r.status, NoArgs, r.ret)
    /\ UNCHANGED <<samples, heap, held>>

\* plot_2dkde with doPlotStragglers: the levels, the contours the library draws
\* for them and the stragglers.  The call record keeps the two traces and the
\* collections of the contour plot, and returns the levels, sx and sy.
PlotKdeStragglers ==
    /\ last.op # "kde"
    /\ \E h \in StragglerGrids :
        LET lv == StragglerLevels[h]
        IN /\ hist' = h
           /\ \E pts \in PointLists :
                LET trace1 == [i \in 1..Len(pts) |-> pts[i][1]]
                    trace2 == [i \in 1..Len(pts) |-> pts[i][2]]
                    Args(c) == [trace1 |-> trace1, trace2 |-> trace2,
                                collections |-> c]
                IN IF lv.status # "ok"
                   THEN last' = Call("kde", "", lv.status, Args(<<>>), None)
                   ELSE \E drawn \in ContourSets :
                          \E cont \in contour(lv.ret[1], drawn) :
                            IF cont.status # "ok"
                            THEN last' = Call("kde", "", cont.status, Args(<<>>), None)
                            ELSE LET s == stragglers(trace1, trace2, cont.collections)
                                 IN last' = Call("kde", "", "ok", Args(cont.collections),
                                                 <<lv.ret[1], s.sx, s.sy>>)
    /\ UNCHANGED <<samples, heap, held>>

\* The store and its readers.  Every store a call with several files makes is
\* made by calls with one file each.
Next ==
    \/ GenerateFromFile(SingleFiles, FALSE)
    \/ GetSamples
    \/ Mutate
    \/ Release
    \/ Newaxis
    \/ EffectiveSamples

Spec == Init /\ [][Next]_vars

\* Ingestion, with the list of files kept in the call record.
NextIngest ==
    \/ GenerateFromFile(FileLists, TRUE)
    \/ Newaxis

SpecIngest == Init /\ [][NextIngest]_vars

\* Long traces and their effective sample sizes.
NextEss ==
    \/ GenerateFromFile(LongFileLists, FALSE)
    \/ Newaxis
    \/ EffectiveSamples

SpecEss == Init /\ [][NextEss]_vars

\* The contour levels of a density grid.
NextContour == PlotKde

SpecContour == Init /\ [][NextContour]_vars

\* The stragglers of a contour plot.
NextStragglers == PlotKdeStragglers

SpecStragglers == Init /\ [][NextStragglers]_vars

-----------------------------------------------------------------------------
(* Properties.                                                             *)

\* The stored trace of every name is the same array with the same content
\* after the step as before it.
StoreKept ==
    /\ DOMAIN samples' = DOMAIN samples
    /\ \A n \in DOMAIN samples :
          /\ samples'[n] = samples[n]
          /\ heap'[samples[n].buf] = heap[samples[n].buf]

\* C1: get_samples(name) of a stored name returns an array equal by content to
\* the stored trace (same shape, same data) in a buffer of its own, which is
\* neither the store's nor that of a copy handed out before; and no get, no
\* write of the caller into a copy it holds and no release of a copy changes
\* any stored trace, so that every later get returns what was stored.
C1_GetReturnsIndependentCopy ==
    [][ /\ (last'.op = "get" /\ last'.status = "ok") =>
              LET r == last'.ret[1]
                  t == samples'[last'.name]
              IN /\ r.shape = t.shape
                 /\ heap'[r.buf] = heap'[t.buf]
                 /\ \A n \in DOMAIN samples' : samples'[n].buf # r.buf
                 /\ \A k \in 1..Len(held) : held[k].arr.buf # r.buf
        /\ last'.op \in {"get", "mutate", "release"} => StoreKept
      ]_vars

\* A copy the caller holds has been written to and differs from the stored
\* trace it was copied from.
C1_Witness ==
    /\ last.op = "mutate"
    /\ \E k \in 1..Len(held) :
          /\ held[k].name \in DOMAIN samples
          /\ heap[held[k].arr.buf] # heap[samples[held[k].name].buf]

\* Source k of the call comes after its name was populated: the name was in
\* the store before the call, or an earlier source of the call has it.
NamePopulated(smp, filename, k) ==
    \/ filename[k].name \in DOMAIN smp
    \/ \E j \in 1..(k - 1) : filename[j].name = filename[k].name

\* The first source of the call with the name n.
FirstSource(filename, n) ==
    filename[CHOOSE k \in 1..Len(filename) :
                 /\ filename[k].name = n
                 /\ \A j \in 1..(k - 1) : filename[j].name # n]

\* The lines of the table that hold data do not all have the same number of
\* columns.
Ragged(rows) ==
    \E i, j \in 1..Len(rows) :
        Len(rows[i]) > 0 /\ Len(rows[j]) > 0 /\ Len(rows[i]) # Len(rows[j])

\* First write wins: a call of generate_from_file leaves every stored trace as
\* it is, and a name the call adds holds the table of the first source of the
\* call with that name.
FirstWriteWins ==
    /\ \A n \in DOMAIN samples :
          /\ n \in DOMAIN samples'
          /\ samples'[n] = samples[n]
          /\ heap'[samples[n].buf] = heap[samples[n].buf]
    /\ \A n \in DOMAIN samples' \ DOMAIN samples :
          LET t == genfromtxt(FirstSource(last'.args, n).rows)
          IN /\ samples'[n].shape = t.shape
             /\ heap'[samples'[n].buf] = t.data

\* C2 as stated: first write wins, and no source that comes after its name was
\* populated is what the call raises from (it is skipped silently).
C2_LaterSourceSkippedSilently ==
    [][ last'.op = "ingest" =>
          /\ FirstWriteWins
          /\ \A k \in 1..Len(last'.args) :
                NamePopulated(samples, last'.args, k) =>
                    ~(last'.status # "ok" /\ last'.ret = <<k>>)
      ]_vars

\* C2, amended: first write wins; a source that comes after its name was
\* populated and whose data lines all have the same number of columns is
\* skipped silently; the call raises from such a source only when its lines
\* differ in their number of columns, and the store is then what the sources
\* before it made it.
C2_FirstWriteWins ==
    [][ last'.op = "ingest" =>
          /\ FirstWriteWins
          /\ \A k \in 1..Len(last'.args) :
                (NamePopulated(samples, last'.args, k)
                    /\ last'.status # "ok" /\ last'.ret = <<k>>)
                => Ragged(last'.args[k].rows)
      ]_vars

\* A call named the same parameter twice with different tables, completed, and
\* the store holds the first of the two.
C2_Witness ==
    /\ last.op = "ingest"
    /\ last.status = "ok"
    /\ \E j, k \in 1..Len(last.args) :
          /\ j < k
          /\ last.args[j].name = last.args[k].name
          /\ \A i \in 1..(j - 1) : last.args[i].name # last.args[j].name
          /\ genfromtxt(last.args[k].rows).status = "ok"
          /\ genfromtxt(last.args[k].rows).data # genfromtxt(last.args[j].rows).data
          /\ heap[samples[last.args[j].name].buf] = genfromtxt(last.args[j].rows).data

\* C3: when the autocorrelation estimate of the stored trace succeeds,
\* effective_samples(name) returns D values, the d-th being N / tau_d, for a
\* trace of N iterations and D dimensions.
C3_EssIsNOverTau ==
    (last.op = "ess" /\ last.name \in DOMAIN samples) =>
        LET traces == samples[last.name]
            tau == autocorr_timescale(heap, traces)
        IN tau.status = "ok" =>
              /\ last.status = "ok"
              /\ Len(last.ret) = 1
              /\ Len(last.ret[1]) = traces.shape[2]
              /\ \A d \in 1..traces.shape[2] :
                    LET e == last.ret[1][d]
                        t == tau.ret[d]
                    IN IF IsNaN(t) THEN IsNaN(e)
                       ELSE IF t.n = 0 THEN e = RInf
                       ELSE RMul(e, t) = Rat(traces.shape[1], 1)

\* effective_samples returned two different finite values for a trace of two
\* dimensions.
C3_Witness ==
    /\ last.op = "ess"
    /\ last.status = "ok"
    /\ last.ret # None
    /\ Len(last.ret[1]) = 2
    /\ IsFinite(last.ret[1][1])
    /\ IsFinite(last.ret[1][2])
    /\ last.ret[1][1] # last.ret[1][2]

\* C4: get_samples(name) for a name that is not in the store raises KeyError,
\* returns nothing, and leaves the store, the heap and the caller's copies as
\* they were.
C4_GetAbsentRaises ==
    [][ (last'.op = "get" /\ last'.name \notin DOMAIN samples) =>
          /\ last'.status = "KeyError"
          /\ last'.ret = None
          /\ samples' = samples
          /\ heap' = heap
          /\ held' = held
      ]_vars

\* A get of an unknown name raised while the store held another name.
C4_Witness ==
    /\ last.op = "get"
    /\ last.status = "KeyError"
    /\ last.name \notin DOMAIN samples
    /\ DOMAIN samples # {}

\* C5 as stated: effective_samples(name) for a name that is not in the store
\* raises (the lookup error reaches the caller).
C5_EssAbsentRaises ==
    (last.op = "ess" /\ last.name \notin DOMAIN samples) => last.status = "KeyError"

\* C5, amended: effective_samples(name) for a name that is not in the store
\* raises nothing: it returns None (after printing a warning) and leaves the
\* store and the heap as they were.
C5_EssAbsentReturnsNone ==
    [][ (last'.op = "ess" /\ last'.name \notin DOMAIN samples) =>
          /\ last'.status = "ok"
          /\ last'.ret = None
          /\ samples' = samples
          /\ heap' = heap
      ]_vars

\* effective_samples of an unknown name returned while the store held another.
C5_Witness ==
    /\ last.op = "ess"
    /\ last.name \notin DOMAIN samples
    /\ last.status = "ok"
    /\ last.ret = None
    /\ DOMAIN samples # {}

\* The table has a blank line, no row at all, or a row with a token that is
\* no number.
Malformed(rows) ==
    \/ Len(rows) = 0
    \/ \E i \in 1..Len(rows) : Len(rows[i]) = 0
    \/ \E i \in 1..Len(rows) : \E c \in 1..Len(rows[i]) :
          rows[i][c] \notin {"0", "1", "2", "-1"}

\* C6: when source k of a call is the first with a blank, zero-row or
\* non-numeric table and the sources before it parse, the call raises from
\* source k and the store is the one sources 1..k-1 make.
C6_MalformedSourceFails ==
    [][ last'.op = "ingest" =>
          \A k \in 1..Len(last'.args) :
              (/\ Malformed(last'.args[k].rows)
               /\ \A j \in 1..(k - 1) :
                     ~Malformed(last'.args[j].rows) /\ ~Ragged(last'.args[j].rows))
              => LET before == generate_from_file(samples, heap,
                                                  SubSeq(last'.args, 1, k - 1))
                 IN /\ last'.status # "ok"
                    /\ last'.ret = <<k>>
                    /\ samples' = before.samples
                    /\ heap' = before.heap
      ]_vars

\* C7: newaxis() makes every flat trace of length N an (N, 1) array over the
\* same data in the same order, leaves every trace of two or more axes as it
\* is, keeps the names, and a second newaxis() changes nothing.
C7_NewaxisNormalises ==
    [][ last'.op = "newaxis" =>
          /\ DOMAIN samples' = DOMAIN samples
          /\ heap' = heap
          /\ \A n \in DOMAIN samples :
                /\ samples'[n].buf = samples[n].buf
                /\ Len(samples[n].shape) = 1 =>
                      samples'[n].shape = <<samples[n].shape[1], 1>>
                /\ Len(samples[n].shape) >= 2 => samples'[n] = samples[n]
          /\ newaxis(samples') = samples'
      ]_vars

\* newaxis() ran on a store with a flat trace, now (2, 1), and a 2 x 2 trace.
C7_Witness ==
    /\ last.op = "newaxis"
    /\ \E n, m \in DOMAIN samples :
          /\ samples[n].shape = <<2, 1>>
          /\ samples[m].shape = <<2, 2>>

\* Column i (from 0) of the 2-d trace is a constant series of two values or
\* more.
ConstantColumn(hp, traces, i) ==
    /\ traces.shape[1] >= 2
    /\ \A r \in 1..traces.shape[1] :
          Column(hp, traces, i)[r] = Column(hp, traces, i)[1]

\* C8: effective_samples(name) on a trace with a constant dimension raises;
\* it returns no value.
C8_ConstantTraceFails ==
    (/\ last.op = "ess"
     /\ last.name \in DOMAIN samples
     /\ Len(samples[last.name].shape) = 2
     /\ \E i \in 0..(samples[last.name].shape[2] - 1) :
           ConstantColumn(heap, samples[last.name], i))
    => (last.status # "ok" /\ last.ret = None)

\* f(a) and f(b) have the same sign for the k-th fraction, a and b the least
\* and the greatest density of the grid.
NotBracketed(h, k) ==
    LET fa == hfrac(h, fracs[k], Rat(hist_min(h), 1))
        fb == hfrac(h, fracs[k], Rat(hist_max(h), 1))
    IN \/ fa.n > 0 /\ fb.n > 0
       \/ fa.n < 0 /\ fb.n < 0

\* C9: when the ends of the bisection do not bracket a root for one of the
\* fractions, plot_2dkde raises ValueError and gives no contour levels.
C9_UnbracketedRaises ==
    (last.op = "kde" /\ \E k \in 1..Len(fracs) : NotBracketed(hist, k)) =>
        (last.status = "ValueError" /\ last.ret = None)

\* plot_2dkde raised on a grid of several cells that are all equal.
C9_Witness ==
    /\ last.op = "kde"
    /\ last.status = "ValueError"
    /\ Len(hist) > 1
    /\ \A i \in 1..Len(hist) : hist[i] = hist[1]

\* x <= y for finite rationals.
RLeq(x, y) == x.n * y.d <= y.n * x.d

\* The levels the mass is compared at: the whole densities up to one past the
\* greatest, their halves, and the levels found.
ProbeLevels ==
    {Rat(i, 2) : i \in 0..(2 * hist_max(hist) + 2)}
    \cup (IF last.status = "ok" THEN {last.ret[1][k] : k \in 1..Len(last.ret[1])} ELSE {})

\* C10: the mass of the grid in the cells at or above L does not increase with
\* L, and the levels found for 0.9973, 0.9545 and 0.6827, in that order, do
\* not decrease: the first is the outermost.
C10_LevelsOuterToInner ==
    last.op = "kde" =>
        /\ \A x, y \in ProbeLevels :
              RLeq(x, y) => mass_ge(hist, x) >= mass_ge(hist, y)
        /\ last.status = "ok" =>
              /\ Len(last.ret[1]) = 3
              /\ RLeq(last.ret[1][1], last.ret[1][2])
              /\ RLeq(last.ret[1][2], last.ret[1][3])

\* Three levels were found and the first is strictly below the second.
C10_Witness ==
    /\ last.op = "kde"
    /\ last.status = "ok"
    /\ RLess(last.ret[1][1], last.ret[1][2])

\* Point i of the call is contained by some path of the list.
InsideOf(paths, i) ==
    \E k \in 1..Len(paths) :
        contains_point(paths[k], last.args.trace1[i], last.args.trace2[i])

\* The j-th of the indices in S, in ascending order.
Nth(S, j) == CHOOSE i \in S : Cardinality({m \in S : m < i}) = j - 1

\* C11: when plot_2dkde classifies the points, each point is inside (some path
\* of the first collection of the contour plot contains it) or a straggler (no
\* path of the first collection contains it), never both and never neither;
\* sx and sy hold the coordinates of the stragglers and of no other point, in
\* the order of the points, whatever the paths of the other collections are.
C11_StragglersOutsideOuter ==
    (last.op = "kde" /\ last.status = "ok" /\ Len(last.ret) = 3) =>
        LET n == Len(last.args.trace1)
            first == last.args.collections[1]
            inside == {i \in 1..n : InsideOf(first, i)}
            out == {i \in 1..n : \A k \in 1..Len(first) :
                       ~contains_point(first[k], last.args.trace1[i],
                                       last.args.trace2[i])}
        IN /\ inside \cap out = {}
           /\ inside \cup out = 1..n
           /\ last.ret[2] = [j \in 1..Cardinality(out) |-> last.args.trace1[Nth(out, j)]]
           /\ last.ret[3] = [j \in 1..Cardinality(out) |-> last.args.trace2[Nth(out, j)]]

\* The levels increase and the first collection has two paths; one point is found by the second of
\* them only, another by none and is the one straggler, and the paths of the
\* last collection contain a different set of points.
C11_Witness ==
    /\ last.op = "kde"
    /\ last.status = "ok"
    /\ Len(last.ret) = 3
    /\ Increasing(last.ret[1])
    /\ Len(last.args.collections[1]) = 2
    /\ Len(last.args.trace1) = 2
    /\ ~contains_point(last.args.collections[1][1],
                       last.args.trace1[1], last.args.trace2[1])
    /\ contains_point(last.args.collections[1][2],
                      last.args.trace1[1], last.args.trace2[1])
    /\ ~InsideOf(last.args.collections[1], 2)
    /\ last.ret[2] = <<last.args.trace1[2]>>
    /\ last.ret[3] = <<last.args.trace2[2]>>
    /\ \E i \in 1..2 : InsideOf(last.args.collections[3], i)
                             # InsideOf(last.args.collections[1], i)

====
